---- MODULE Spec2Model ----
(***************************************************************************)
(* A model of data_connector.py: the DataConnector facade over tabular     *)
(* sources.  Every method is one atomic call; the call's observable steps  *)
(* (status lines, imports, connections, delegate invocations, environment  *)
(* writes) are kept, in program order and tagged with their source line,   *)
(* in the trace of the call.  The external loaders (pandas, sqlite3, the   *)
(* network drivers) are modelled by what they answer for a given state of  *)
(* the outside world, which each call draws from a small set.              *)
(***************************************************************************)
EXTENDS Integers, Sequences, FiniteSets, TLC

VARIABLES
    environ,      \* os.environ['GOOGLE_APPLICATION_CREDENTIALS'] (None: unset)
    openHandles,  \* SQLite connections opened by finished calls and not closed
    last          \* the most recent call: operation, arguments, world, result

vars == <<environ, openHandles, last>>

\* Largest number of not-yet-closed SQLite connections the model follows.
MaxOpen == 2

-----------------------------------------------------------------------------
(* Python values *)

None == "<None>"

\* Python truthiness of an Optional[str]: None and "" are both false.
Truthy(s) == s # None /\ s # ""

Ret(v) == [kind |-> "return", val |-> v]
Raise(t, m) == [kind |-> "raise", val |-> [type |-> t, msg |-> m]]
NoResult == Ret([type |-> "none"])

DataFrame(data, rows, cols, opts) ==
    [type |-> "DataFrame", data |-> data, rows |-> rows, cols |-> cols, opts |-> opts]

\* One observable step of a call, at a source line.
E(ev, line, a, b) == [ev |-> ev, line |-> line, a |-> a, b |-> b, res |-> NoResult]
\* An invocation of an external routine, with what it answered.
D(ev, line, a, b, res) == [ev |-> ev, line |-> line, a |-> a, b |-> b, res |-> res]

\* The keyword arguments: a set of <<key, value>> pairs, one pair per key.
HasKey(kwargs, k) == \E p \in kwargs : p[1] = k
Get(kwargs, k) == (CHOOSE p \in kwargs : p[1] = k)[2]
Pop(kwargs, k) == {p \in kwargs : p[1] # k}
Keys(kwargs) == {p[1] : p \in kwargs}

-----------------------------------------------------------------------------
(* Strings as character sequences: pathlib's suffix and str.lower *)

RECURSIVE Str(_)
Str(cs) == IF cs = <<>> THEN "" ELSE Head(cs) \o Str(Tail(cs))

UpperCase == <<"A", "B", "C", "D", "E", "F", "G", "H", "I", "J", "K", "L", "M",
               "N", "O", "P", "Q", "R", "S", "T", "U", "V", "W", "X", "Y", "Z">>
LowerCase == <<"a", "b", "c", "d", "e", "f", "g", "h", "i", "j", "k", "l", "m",
               "n", "o", "p", "q", "r", "s", "t", "u", "v", "w", "x", "y", "z">>

LowerChar(c) ==
    IF \E i \in DOMAIN UpperCase : UpperCase[i] = c
    THEN LowerCase[CHOOSE i \in DOMAIN UpperCase : UpperCase[i] = c]
    ELSE c

\* A slip: the suffix is compared as written, without lower-casing.
Lower_as_written(cs) == cs

\* str.lower()
Lower(cs) == [i \in DOMAIN cs |-> LowerChar(cs[i])]

\* str.rfind(ch): the last index of ch (0-based), -1 when absent.
RFind(cs, ch) ==
    LET hits == {i \in DOMAIN cs : cs[i] = ch}
    IN IF hits = {} THEN -1 ELSE (CHOOSE i \in hits : \A j \in hits : j <= i) - 1

\* PurePath.name: the last component of the path.
Name(cs) == SubSeq(cs, RFind(cs, "/") + 2, Len(cs))

\* PurePath.suffix: from the last dot of the name, unless the name starts
\* or ends with that dot.
Suffix(cs) ==
    LET name == Name(cs)
        i == RFind(name, ".")
    IN IF 0 < i /\ i < Len(name) - 1 THEN SubSeq(name, i + 1, Len(name)) ELSE <<>>

-----------------------------------------------------------------------------
(* The external loaders *)

\* Options every pandas reader of the model accepts; any other keyword is
\* rejected by the reader with a TypeError before it touches the source.
AcceptedOptions == {"dtype"}

BadKeyword(kwargs) ==
    Raise("TypeError", "got an unexpected keyword argument '"
                       \o (CHOOSE k \in Keys(kwargs) \ AcceptedOptions : TRUE) \o "'")

\* pd.read_csv / pd.read_json on a file in state `file`.
pd_read_file(path, kwargs, file) ==
    IF ~(Keys(kwargs) \subseteq AcceptedOptions) THEN BadKeyword(kwargs)
    ELSE IF file = "missing" THEN Raise("FileNotFoundError", "No such file: " \o path)
    ELSE IF file = "malformed" THEN Raise("ParserError", "Error tokenizing data")
    ELSE Ret(DataFrame(path, 3, 2, kwargs))

\* The sheet selection pandas applies when sheet_name is not passed: 0, the
\* first sheet.
DefaultSheet == "<sheet 0>"

\* pd.read_excel(path, sheet_name=..., options): sheet 0 gives the first
\* sheet, a name gives that sheet, None gives every sheet as a dict.
pd_read_excel(path, sheet_name, kwargs, wb) ==
    IF ~(Keys(kwargs) \subseteq AcceptedOptions) THEN BadKeyword(kwargs)
    ELSE IF wb.state = "missing" THEN Raise("FileNotFoundError", "No such file: " \o path)
    ELSE IF sheet_name = None THEN Ret([type |-> "dict", sheets |-> wb.sheets])
    ELSE IF sheet_name = DefaultSheet THEN Ret(DataFrame(wb.sheets[1], 4, 2, kwargs))
    ELSE IF \E i \in DOMAIN wb.sheets : wb.sheets[i] = sheet_name
         THEN Ret(DataFrame(sheet_name, 4, 2, kwargs))
    ELSE Raise("ValueError", "Worksheet named '" \o sheet_name \o "' not found")

TableNames == {"users", "orders", "missing", "p.d.users"}

\* The backquote of BigQuery identifiers, written with a character a
\* string of this language can hold.
BackQuote == "'"

InSeq(x, s) == \E i \in DOMAIN s : s[i] = x

\* A SQL engine holding the tables `tables` (a sequence of names) running
\* the statement `sql`; `quote` is the identifier quote of the dialect.
RunSql(sql, tables, kwargs, quote) ==
    IF \E t \in TableNames : sql = "SELECT * FROM " \o quote \o t \o quote
    THEN LET t == CHOOSE t \in TableNames : sql = "SELECT * FROM " \o quote \o t \o quote
         IN IF InSeq(t, tables) THEN Ret(DataFrame(t, 5, 3, kwargs))
            ELSE Raise("DatabaseError", "no such table: " \o t)
    ELSE IF sql = "SELECT 1" THEN Ret(DataFrame("1", 1, 1, kwargs))
    ELSE Raise("DatabaseError", "syntax error in: " \o sql)

\* pd.read_sql(sql, conn, options) on an open sqlite3 connection.
pd_read_sql_sqlite(sql, kwargs, db) ==
    IF ~(Keys(kwargs) \subseteq AcceptedOptions) THEN BadKeyword(kwargs)
    ELSE IF db.state = "corrupt" THEN Raise("DatabaseError", "file is not a database")
    ELSE RunSql(sql, db.catalog, kwargs, "")

\* cursor.execute("SELECT name FROM sqlite_master WHERE type='table';")
sqlite_master(db) ==
    IF db.state = "corrupt" THEN Raise("DatabaseError", "file is not a database")
    ELSE Ret([type |-> "rows", items |-> db.catalog])

\* pd.read_sql(sql, connection_string, options) against a network server.
pd_read_sql_url(sql, url, kwargs, server) ==
    IF ~(Keys(kwargs) \subseteq AcceptedOptions) THEN BadKeyword(kwargs)
    ELSE IF server = "unreachable" THEN Raise("OperationalError", "cannot connect: " \o url)
    ELSE RunSql(sql, <<"users">>, kwargs, "")

\* pandas_gbq.read_gbq(query, project_id=..., options); the service reads
\* the credentials the process environment names at that moment.
read_gbq(query, project_id, kwargs, service) ==
    IF ~(Keys(kwargs) \subseteq AcceptedOptions) THEN BadKeyword(kwargs)
    ELSE IF service = "denied" THEN Raise("GenericGBQException", "access denied: " \o project_id)
    ELSE RunSql(query, <<"p.d.users">>, kwargs, BackQuote)

-----------------------------------------------------------------------------
(* DataConnector: the file readers *)

NoShape == "'dict' object has no attribute 'shape'"

\* A slip: the handler swallows the exception and hands back an empty frame.
Finish_swallowing(pre, d, okLine, errLine) ==
    IF d.kind = "return" /\ d.val.type = "DataFrame"
    THEN [outcome |-> d, trace |-> pre \o <<E("print", okLine, "loaded", "")>>]
    ELSE LET exc == IF d.kind = "raise" THEN d ELSE Raise("AttributeError", NoShape)
         IN [outcome |-> Ret(DataFrame("", 0, 0, {})),
             trace |-> pre \o <<E("print", errLine, exc.val.msg, "")>>]

\* The common tail of every reader: the status line reads df.shape and the
\* frame is returned; any exception of the try block (the delegate's, or the
\* one of reading .shape) is printed and re-raised by the bare `raise`.
Finish(pre, d, okLine, errLine) ==
    IF d.kind = "return" /\ d.val.type = "DataFrame"
    THEN [outcome |-> d, trace |-> pre \o <<E("print", okLine, "loaded", "")>>]
    ELSE LET exc == IF d.kind = "raise" THEN d ELSE Raise("AttributeError", NoShape)
         IN [outcome |-> exc, trace |-> pre \o <<E("print", errLine, exc.val.msg, "")>>]

Result(fin, unclosed) ==
    [outcome |-> fin.outcome, trace |-> fin.trace, unclosed |-> unclosed]

read_csv(path, kwargs, file) ==
    LET d == pd_read_file(path, kwargs, file)
    IN Result(Finish(<<E("print", 41, path, ""), D("delegate", 42, "pd.read_csv", path, d)>>,
                     d, 43, 46), 0)

read_excel(path, sheet_name, kwargs, wb) ==
    LET d == pd_read_excel(path, sheet_name, kwargs, wb)
        pre == <<E("print", 62, path, "")>>
               \o (IF Truthy(sheet_name) THEN <<E("print", 64, sheet_name, "")>> ELSE <<>>)
               \o <<D("delegate", 65, "pd.read_excel", sheet_name, d)>>
    IN Result(Finish(pre, d, 66, 69), 0)

read_json(path, kwargs, file) ==
    LET d == pd_read_file(path, kwargs, file)
    IN Result(Finish(<<E("print", 84, path, ""), D("delegate", 85, "pd.read_json", path, d)>>,
                     d, 86, 89), 0)

\* Python's binding of read_excel(path, **kwargs): a sheet_name keyword
\* binds the parameter, which otherwise takes its default, None.
bind_read_excel(path, kwargs, wb) ==
    read_excel(path,
               IF HasKey(kwargs, "sheet_name") THEN Get(kwargs, "sheet_name") ELSE None,
               Pop(kwargs, "sheet_name"), wb)

-----------------------------------------------------------------------------
(* DataConnector: SQLite *)

CannotOpen == Raise("OperationalError", "unable to open database file")

\* `with sqlite3.connect(path) as conn:` leaving the block.  The context
\* manager of a sqlite3 connection commits or rolls back and does not close
\* it, and the methods never call conn.close(): the handle is closed when
\* the runtime finalizes the connection object.  A reference-counting
\* runtime does so as the frame of a returning call is dropped; the frame of
\* a raising call stays referenced by the traceback in flight, and a
\* tracing runtime finalizes at some later collection.
Unreleased(outcome, runtime) ==
    IF outcome.kind = "return" /\ runtime = "refcount" THEN 0 ELSE 1

read_sqlite_table(path, table, kwargs, db, runtime) ==
    LET sql == "SELECT * FROM " \o table
        p == <<E("print", 105, table, path)>>
    IN IF db.state = "unopenable"
       THEN Result(Finish(p \o <<D("connect", 106, path, "", CannotOpen)>>,
                          CannotOpen, 108, 111), 0)
       ELSE LET d == pd_read_sql_sqlite(sql, kwargs, db)
                body == p \o <<E("connect", 106, path, "open"),
                               D("delegate", 107, sql, path, d),
                               E("exit", 106, IF d.kind = "return" THEN "commit"
                                              ELSE "rollback", "")>>
                fin == Finish(body, d, 108, 111)
            IN Result(fin, Unreleased(fin.outcome, runtime))

read_sqlite_query(path, query, kwargs, db, runtime) ==
    LET p == <<E("print", 127, path, ""), E("print", 128, query, "")>>
    IN IF db.state = "unopenable"
       THEN Result(Finish(p \o <<D("connect", 129, path, "", CannotOpen)>>,
                          CannotOpen, 131, 134), 0)
       ELSE LET d == pd_read_sql_sqlite(query, kwargs, db)
                body == p \o <<E("connect", 129, path, "open"),
                               D("delegate", 130, query, path, d),
                               E("exit", 129, IF d.kind = "return" THEN "commit"
                                              ELSE "rollback", "")>>
                fin == Finish(body, d, 131, 134)
            IN Result(fin, Unreleased(fin.outcome, runtime))

list_sqlite_tables(path, db, runtime) ==
    IF db.state = "unopenable"
    THEN [outcome |-> CannotOpen,
          trace |-> <<D("connect", 148, path, "", CannotOpen),
                      E("print", 155, CannotOpen.val.msg, "")>>,
          unclosed |-> 0]
    ELSE LET d == sqlite_master(db)
             body == <<E("connect", 148, path, "open"),
                       D("delegate", 150, "sqlite_master", path, d),
                       E("exit", 148, IF d.kind = "return" THEN "commit"
                                      ELSE "rollback", "")>>
         IN IF d.kind = "return"
            THEN LET out == Ret([type |-> "list", items |-> d.val.items])
                 IN [outcome |-> out,
                     trace |-> body \o <<E("print", 152, "found", "")>>,
                     unclosed |-> Unreleased(out, runtime)]
            ELSE [outcome |-> d,
                  trace |-> body \o <<E("print", 155, d.val.msg, "")>>,
                  unclosed |-> Unreleased(d, runtime)]

-----------------------------------------------------------------------------
(* DataConnector: auto-detection *)

\* A call made from inside auto_detect_and_read, after the steps `pre` and
\* the handles `held` the dispatcher has already left open.
After(pre, held, r) ==
    [outcome |-> r.outcome, trace |-> pre \o r.trace, unclosed |-> held + r.unclosed]

\* A slip: the last listed table is taken as the default.
sqlite_branch_last_table(p, pre, kwargs, db, runtime) ==
    LET listed == list_sqlite_tables(p, db, runtime)
        pre2 == pre \o listed.trace
    IN IF listed.outcome.kind = "raise" THEN After(pre, 0, listed)
       ELSE LET tables == listed.outcome.val.items
            IN IF tables = <<>>
               THEN [outcome |-> Raise("ValueError", "No tables found in SQLite database"),
                     trace |-> pre2, unclosed |-> listed.unclosed]
               ELSE IF HasKey(kwargs, "table")
               THEN After(pre2, listed.unclosed,
                          read_sqlite_table(p, Get(kwargs, "table"), Pop(kwargs, "table"),
                                            db, runtime))
               ELSE After(pre2 \o <<E("print", 319, tables[Len(tables)], "")>>,
                          listed.unclosed,
                          read_sqlite_table(p, tables[Len(tables)], kwargs, db, runtime))

\* A slip: the caller's table option is looked at before the empty catalog.
sqlite_branch_option_first(p, pre, kwargs, db, runtime) ==
    LET listed == list_sqlite_tables(p, db, runtime)
        pre2 == pre \o listed.trace
    IN IF listed.outcome.kind = "raise" THEN After(pre, 0, listed)
       ELSE LET tables == listed.outcome.val.items
            IN IF HasKey(kwargs, "table")
               THEN After(pre2, listed.unclosed,
                          read_sqlite_table(p, Get(kwargs, "table"), Pop(kwargs, "table"),
                                            db, runtime))
               ELSE IF tables = <<>>
               THEN [outcome |-> Raise("ValueError", "No tables found in SQLite database"),
                     trace |-> pre2, unclosed |-> listed.unclosed]
               ELSE After(pre2 \o <<E("print", 319, tables[1], "")>>, listed.unclosed,
                          read_sqlite_table(p, tables[1], kwargs, db, runtime))

\* The SQLite branch of auto_detect_and_read: the catalog is listed first,
\* an empty catalog fails, a 'table' option names the table to read (and is
\* popped from the options), and otherwise the first listed table is read.
sqlite_branch(p, pre, kwargs, db, runtime) ==
    LET listed == list_sqlite_tables(p, db, runtime)
        pre2 == pre \o listed.trace
    IN IF listed.outcome.kind = "raise" THEN After(pre, 0, listed)
       ELSE LET tables == listed.outcome.val.items
            IN IF tables = <<>>
               THEN [outcome |-> Raise("ValueError", "No tables found in SQLite database"),
                     trace |-> pre2, unclosed |-> listed.unclosed]
               ELSE IF HasKey(kwargs, "table")
               THEN After(pre2, listed.unclosed,
                          read_sqlite_table(p, Get(kwargs, "table"), Pop(kwargs, "table"),
                                            db, runtime))
               ELSE After(pre2 \o <<E("print", 319, tables[1], "")>>, listed.unclosed,
                          read_sqlite_table(p, tables[1], kwargs, db, runtime))

auto_detect_and_read(path, kwargs, world, runtime) ==
    LET extension == Str(Lower(Suffix(path)))
        p == Str(path)
        pre == <<E("print", 303, extension, "")>>
    IN IF extension = ".csv" THEN After(pre, 0, read_csv(p, kwargs, world.file))
       ELSE IF extension \in {".xlsx", ".xls"}
            THEN After(pre, 0, bind_read_excel(p, kwargs, world.wb))
       ELSE IF extension = ".json" THEN After(pre, 0, read_json(p, kwargs, world.file))
       ELSE IF extension \in {".db", ".sqlite", ".sqlite3"}
            THEN sqlite_branch(p, pre, kwargs, world.db, runtime)
       ELSE [outcome |-> Raise("ValueError", "Unsupported file format: " \o extension),
             trace |-> pre, unclosed |-> 0]

\* The module-level read_excel(path, **kwargs): a fresh DataConnector and
\* the same call.
module_read_excel(path, kwargs, wb) == bind_read_excel(path, kwargs, wb)

-----------------------------------------------------------------------------
(* DataConnector: the network databases *)

MySQLDefaultPort == 3306
PostgreSQLDefaultPort == 5432

\* A slip: an empty frame is handed back where the ValueError belongs.
NeitherGiven_empty_frame == Ret(DataFrame("", 0, 0, {}))

NeitherGiven == Raise("ValueError", "Either 'table' or 'query' parameter must be provided")

PyMySQLMissing ==
    Raise("ImportError",
          "PyMySQL is required for MySQL connections. Install with: pip install pymysql")

\* A slip: the two branches in the other order, so that a table wins over
\* a query.
read_mysql_table_first(host, database, username, password, table, query, port, kwargs, driver, server) ==
    IF ~driver
    THEN [outcome |-> PyMySQLMissing,
          trace |-> <<D("import", 177, "pymysql", "", Raise("ImportError", "pymysql"))>>,
          unclosed |-> 0]
    ELSE LET connection_string == "mysql+pymysql://" \o username \o ":" \o password \o "@"
                                  \o host \o ":" \o ToString(port) \o "/" \o database
             pre == <<E("import", 177, "pymysql", ""), E("print", 182, host, database)>>
         IN IF Truthy(table)
            THEN LET sql == "SELECT * FROM " \o table
                     d == pd_read_sql_url(sql, connection_string, kwargs, server)
                 IN Result(Finish(pre \o <<E("print", 190, table, ""),
                                           D("delegate", 191, sql, connection_string, d)>>,
                                  d, 195, 198), 0)
            ELSE IF Truthy(query)
            THEN LET d == pd_read_sql_url(query, connection_string, kwargs, server)
                 IN Result(Finish(pre \o <<E("print", 187, query, ""),
                                           D("delegate", 188, query, connection_string, d)>>,
                                  d, 195, 198), 0)
            ELSE Result(Finish(pre \o <<E("raise", 193, "ValueError", "")>>,
                               NeitherGiven, 195, 198), 0)

read_mysql(host, database, username, password, table, query, port, kwargs, driver, server) ==
    IF ~driver
    THEN [outcome |-> PyMySQLMissing,
          trace |-> <<D("import", 177, "pymysql", "", Raise("ImportError", "pymysql"))>>,
          unclosed |-> 0]
    ELSE LET connection_string == "mysql+pymysql://" \o username \o ":" \o password \o "@"
                                  \o host \o ":" \o ToString(port) \o "/" \o database
             pre == <<E("import", 177, "pymysql", ""), E("print", 182, host, database)>>
         IN IF Truthy(query)
            THEN LET d == pd_read_sql_url(query, connection_string, kwargs, server)
                 IN Result(Finish(pre \o <<E("print", 187, query, ""),
                                           D("delegate", 188, query, connection_string, d)>>,
                                  d, 195, 198), 0)
            ELSE IF Truthy(table)
            THEN LET sql == "SELECT * FROM " \o table
                     d == pd_read_sql_url(sql, connection_string, kwargs, server)
                 IN Result(Finish(pre \o <<E("print", 190, table, ""),
                                           D("delegate", 191, sql, connection_string, d)>>,
                                  d, 195, 198), 0)
            ELSE Result(Finish(pre \o <<E("raise", 193, "ValueError", "")>>,
                               NeitherGiven, 195, 198), 0)

Psycopg2Missing ==
    Raise("ImportError",
          "psycopg2 is required for PostgreSQL connections. Install with: pip install psycopg2-binary")

read_postgresql(host, database, username, password, table, query, port, kwargs, driver, server) ==
    IF ~driver
    THEN [outcome |-> Psycopg2Missing,
          trace |-> <<D("import", 220, "psycopg2", "", Raise("ImportError", "psycopg2"))>>,
          unclosed |-> 0]
    ELSE LET connection_string == "postgresql://" \o username \o ":" \o password \o "@"
                                  \o host \o ":" \o ToString(port) \o "/" \o database
             pre == <<E("import", 220, "psycopg2", ""), E("print", 225, host, database)>>
         IN IF Truthy(query)
            THEN LET d == pd_read_sql_url(query, connection_string, kwargs, server)
                 IN Result(Finish(pre \o <<E("print", 230, query, ""),
                                           D("delegate", 231, query, connection_string, d)>>,
                                  d, 238, 241), 0)
            ELSE IF Truthy(table)
            THEN LET sql == "SELECT * FROM " \o table
                     d == pd_read_sql_url(sql, connection_string, kwargs, server)
                 IN Result(Finish(pre \o <<E("print", 233, table, ""),
                                           D("delegate", 234, sql, connection_string, d)>>,
                                  d, 238, 241), 0)
            ELSE Result(Finish(pre \o <<E("raise", 236, "ValueError", "")>>,
                               NeitherGiven, 238, 241), 0)

-----------------------------------------------------------------------------
(* DataConnector: BigQuery *)

NeitherGivenBQ ==
    Raise("ValueError", "Either 'query' or 'table_id' parameter must be provided")

\* A slip: the import's own error is let through, with no remedy named.
PandasGbqMissing_bare == Raise("ImportError", "No module named 'pandas_gbq'")

PandasGbqMissing ==
    Raise("ImportError",
          "pandas-gbq is required for BigQuery connections. Install with: pip install pandas-gbq")

\* A slip: the path is printed and the variable is never written.
environ_after_unset(credentials_path, env) == env

\* os.environ['GOOGLE_APPLICATION_CREDENTIALS'] after the `if credentials_path:`
\* block, given its value `env` before it.
environ_after(credentials_path, env) ==
    IF Truthy(credentials_path) THEN credentials_path ELSE env

\* `env` is the credentials variable of the process as the call starts; the
\* result carries it as the call leaves it.  A delegate invocation records,
\* in its b field, the value the variable has at that moment.
read_bigquery(project_id, query, table_id, credentials_path, kwargs, driver, service, env) ==
    IF ~driver
    THEN [outcome |-> PandasGbqMissing,
          trace |-> <<D("import", 260, "pandas_gbq", "", Raise("ImportError", "pandas_gbq"))>>,
          unclosed |-> 0, environ |-> env]
    ELSE LET env2 == environ_after(credentials_path, env)
             pre == <<E("import", 260, "pandas_gbq", ""), E("print", 265, project_id, "")>>
                    \o (IF Truthy(credentials_path)
                        THEN <<E("setenv", 270, credentials_path, ""),
                               E("print", 271, credentials_path, "")>>
                        ELSE <<>>)
             fin == IF Truthy(query)
                    THEN LET d == read_gbq(query, project_id, kwargs, service)
                         IN Finish(pre \o <<E("print", 274, query, ""),
                                            D("delegate", 275, query, env2, d)>>,
                                   d, 283, 286)
                    ELSE IF Truthy(table_id)
                    THEN LET sql == "SELECT * FROM " \o BackQuote \o table_id \o BackQuote
                             d == read_gbq(sql, project_id, kwargs, service)
                         IN Finish(pre \o <<E("print", 277, table_id, ""),
                                            D("delegate", 279, sql, env2, d)>>,
                                   d, 283, 286)
                    ELSE Finish(pre \o <<E("raise", 281, "ValueError", "")>>,
                                NeitherGivenBQ, 283, 286)
         IN [outcome |-> fin.outcome, trace |-> fin.trace, unclosed |-> 0, environ |-> env2]

-----------------------------------------------------------------------------
(* The callers' inputs and the states of the outside world *)

Paths ==
    { <<"d", ".", "c", "s", "v">>,
      <<"D", ".", "C", "s", "V">>,
      <<"b", ".", "x", "l", "s", "x">>,
      <<"B", ".", "X", "L", "S">>,
      <<"j", ".", "j", "s", "o", "n">>,
      <<"a", ".", "d", "b">>,
      <<"a", ".", "s", "q", "l", "i", "t", "e">>,
      <<"A", ".", "S", "Q", "L", "i", "t", "e", "3">>,
      <<"p", ".", "p", "a", "r", "q", "u", "e", "t">>,
      <<"P", ".", "P", "a", "r", "q", "u", "e", "t">>,
      <<"n", "o", "e", "x", "t">>,
      <<".", "c", "s", "v">>,
      <<"v", ".", "d", "b", "/", "r", "a", "w">>,
      <<"d", ".", "c", "s", "v", ".", "g", "z">> }

PathNames == {"data/in.csv", "book.xlsx", "app.db"}

Kwargs ==
    { {},
      {<<"dtype", "str">>},
      {<<"table", "users">>},
      {<<"table", "orders">>},
      {<<"table", "missing">>},
      {<<"table", "orders">>, <<"dtype", "str">>},
      {<<"sheet_name", "S2">>} }

NetKwargs == {{}, {<<"dtype", "str">>}, {<<"table", "users">>}}

FileStates == {"ok", "missing", "malformed"}

Workbooks ==
    { [state |-> "missing", sheets |-> <<>>],
      [state |-> "ok", sheets |-> <<"S1">>],
      [state |-> "ok", sheets |-> <<"S1", "S2">>] }

Databases ==
    { [state |-> "unopenable", catalog |-> <<>>],
      [state |-> "corrupt", catalog |-> <<>>],
      [state |-> "ok", catalog |-> <<>>],
      [state |-> "ok", catalog |-> <<"users">>],
      [state |-> "ok", catalog |-> <<"users", "orders">>],
      [state |-> "ok", catalog |-> <<"orders", "users">>] }

Runtimes == {"refcount", "tracing"}

\* What auto_detect_and_read may find at its path: one source varies, the
\* other two are readable.
Worlds ==
    LET wb2 == [state |-> "ok", sheets |-> <<"S1", "S2">>]
        db2 == [state |-> "ok", catalog |-> <<"users", "orders">>]
    IN {[file |-> f, wb |-> wb2, db |-> db2] : f \in FileStates}
       \cup {[file |-> "ok", wb |-> w, db |-> db2] : w \in Workbooks}
       \cup {[file |-> "ok", wb |-> wb2, db |-> d] : d \in Databases}

SheetNames == {None, "", "S1", "S2", "S9"}
SqliteTables == {"users", "orders", "missing"}
Queries == {"SELECT 1", "SELECT * FROM users", "SELECT * FROM orders", "DROP"}

Hosts == {"db1", "db2"}
OptionalTables == {None, "", "users", "missing"}
OptionalQueries == {None, ""} \cup Queries
Servers == {"up", "unreachable"}

TableIds == {None, "", "p.d.users", "p.d.gone"}
CredentialPaths == {None, "", "a.json", "b.json"}
Services == {"ok", "denied"}

-----------------------------------------------------------------------------
(* The state machine: a caller makes one call at a time and lets go of its
   result before the next *)

NoCall ==
    [op |-> "none", args |-> [path |-> None], world |-> None,
     outcome |-> NoResult, trace |-> <<>>, unclosed |-> 0]

Init ==
    /\ environ \in {None, "startup.json"}
    /\ openHandles = 0
    /\ last = NoCall

\* The caller holds no result of an earlier call.
Idle == last.op = "none"

Do(op, args, world, r, env2) ==
    /\ openHandles + r.unclosed <= MaxOpen
    /\ last' = [op |-> op, args |-> args, world |-> world, outcome |-> r.outcome,
                trace |-> r.trace, unclosed |-> r.unclosed]
    /\ environ' = env2
    /\ openHandles' = openHandles + r.unclosed

CallReadCsv ==
    /\ Idle
    /\ \E path \in PathNames, kwargs \in Kwargs, file \in FileStates :
           Do("read_csv", [path |-> path, kwargs |-> kwargs], [file |-> file],
              read_csv(path, kwargs, file), environ)

CallReadExcel ==
    /\ Idle
    /\ \E path \in PathNames, sheet_name \in SheetNames, wb \in Workbooks,
          kwargs \in {k \in Kwargs : ~HasKey(k, "sheet_name")} :
           Do("read_excel", [path |-> path, sheet_name |-> sheet_name, kwargs |-> kwargs],
              [wb |-> wb], read_excel(path, sheet_name, kwargs, wb), environ)

CallReadJson ==
    /\ Idle
    /\ \E path \in PathNames, kwargs \in Kwargs, file \in FileStates :
           Do("read_json", [path |-> path, kwargs |-> kwargs], [file |-> file],
              read_json(path, kwargs, file), environ)

CallReadSqliteTable ==
    /\ Idle
    /\ \E path \in PathNames, table \in SqliteTables, kwargs \in Kwargs,
          db \in Databases, runtime \in Runtimes :
           Do("read_sqlite_table", [path |-> path, table |-> table, kwargs |-> kwargs],
              [db |-> db, runtime |-> runtime],
              read_sqlite_table(path, table, kwargs, db, runtime), environ)

CallReadSqliteQuery ==
    /\ Idle
    /\ \E path \in PathNames, query \in Queries, kwargs \in Kwargs,
          db \in Databases, runtime \in Runtimes :
           Do("read_sqlite_query", [path |-> path, query |-> query, kwargs |-> kwargs],
              [db |-> db, runtime |-> runtime],
              read_sqlite_query(path, query, kwargs, db, runtime), environ)

CallListSqliteTables ==
    /\ Idle
    /\ \E path \in PathNames, db \in Databases, runtime \in Runtimes :
           Do("list_sqlite_tables", [path |-> path],
              [db |-> db, runtime |-> runtime],
              list_sqlite_tables(path, db, runtime), environ)

CallReadMysql ==
    /\ Idle
    /\ \E host \in Hosts, table \in OptionalTables, query \in OptionalQueries,
          port \in {MySQLDefaultPort, MySQLDefaultPort + 1}, kwargs \in Kwargs,
          driver \in BOOLEAN, server \in Servers :
           Do("read_mysql",
              [host |-> host, database |-> "shop", username |-> "u", password |-> "pw",
               table |-> table, query |-> query, port |-> port, kwargs |-> kwargs],
              [driver |-> driver, server |-> server],
              read_mysql(host, "shop", "u", "pw", table, query, port, kwargs, driver, server),
              environ)

CallReadPostgresql ==
    /\ Idle
    /\ \E host \in Hosts, table \in OptionalTables, query \in OptionalQueries,
          port \in {PostgreSQLDefaultPort, PostgreSQLDefaultPort + 1}, kwargs \in Kwargs,
          driver \in BOOLEAN, server \in Servers :
           Do("read_postgresql",
              [host |-> host, database |-> "shop", username |-> "u", password |-> "pw",
               table |-> table, query |-> query, port |-> port, kwargs |-> kwargs],
              [driver |-> driver, server |-> server],
              read_postgresql(host, "shop", "u", "pw", table, query, port, kwargs, driver,
                              server),
              environ)

CallReadBigquery ==
    /\ Idle
    /\ \E query \in OptionalQueries \cup {"SELECT * FROM " \o BackQuote \o "p.d.users" \o BackQuote},
          table_id \in TableIds, credentials_path \in CredentialPaths,
          kwargs \in NetKwargs,
          driver \in BOOLEAN, service \in Services :
           LET r == read_bigquery("proj", query, table_id, credentials_path, kwargs,
                                  driver, service, environ)
           IN Do("read_bigquery",
                 [project_id |-> "proj", query |-> query, table_id |-> table_id,
                  credentials_path |-> credentials_path, kwargs |-> kwargs],
                 [driver |-> driver, service |-> service], r, r.environ)

CallAutoDetectAndRead ==
    /\ Idle
    /\ \E path \in Paths, kwargs \in Kwargs, world \in Worlds, runtime \in Runtimes :
           Do("auto_detect_and_read", [path |-> path, kwargs |-> kwargs],
              [file |-> world.file, wb |-> world.wb, db |-> world.db, runtime |-> runtime],
              auto_detect_and_read(path, kwargs, world, runtime), environ)

CallModuleReadExcel ==
    /\ Idle
    /\ \E path \in PathNames, kwargs \in Kwargs, wb \in Workbooks :
           Do("module.read_excel", [path |-> path, kwargs |-> kwargs], [wb |-> wb],
              module_read_excel(path, kwargs, wb), environ)

\* The caller lets go of the Table or of the exception it was handed.
Drop ==
    /\ last.op # "none"
    /\ last' = NoCall
    /\ UNCHANGED <<environ, openHandles>>

\* Connections the exception in flight still references through its
\* traceback; every other unclosed connection is garbage.
Pinned == IF last.outcome.kind = "raise" THEN last.unclosed ELSE 0

\* The runtime finalizes one unreferenced connection object, closing it.
Finalize ==
    /\ openHandles > Pinned
    /\ openHandles' = openHandles - 1
    /\ UNCHANGED <<environ, last>>

Next ==
    \/ CallReadCsv
    \/ CallReadExcel
    \/ CallReadJson
    \/ CallReadSqliteTable
    \/ CallReadSqliteQuery
    \/ CallListSqliteTables
    \/ CallReadMysql
    \/ CallReadPostgresql
    \/ CallReadBigquery
    \/ CallAutoDetectAndRead
    \/ CallModuleReadExcel
    \/ Drop
    \/ Finalize

Spec == Init /\ [][Next]_vars

-----------------------------------------------------------------------------
(* Properties *)

\* The positions of the delegate invocations in a call's trace.
DelegateSteps(tr) == {i \in DOMAIN tr : tr[i].ev = "delegate"}
LinesOf(tr) == {tr[i].line : i \in DOMAIN tr}

SqliteOps == {"read_sqlite_table", "read_sqlite_query", "list_sqlite_tables"}
SqlOps == {"read_mysql", "read_postgresql"}
NetworkOps == {"read_mysql", "read_postgresql", "read_bigquery"}

\* C1: once read_sqlite_table, read_sqlite_query or list_sqlite_tables has
\* returned or raised, no connection that call opened is still open.
C1_ConnectionReleasedOnExit ==
    last.op \in SqliteOps => last.unclosed = 0

\* C2, as stated: read_mysql and read_postgresql with table=None and
\* query=None fail with the ValueError and never invoke pd.read_sql.
C2_NeitherGivenIsValueError ==
    (last.op \in SqlOps /\ last.args.table = None /\ last.args.query = None)
    => /\ last.outcome.kind = "raise"
       /\ last.outcome.val.type = "ValueError"
       /\ DelegateSteps(last.trace) = {}

\* C2, amended: with table=None and query=None pd.read_sql is never invoked;
\* the call fails with the ValueError when the driver can be imported, and
\* with the driver's ImportError when it cannot.
C2_NeitherGivenNoDelegate ==
    (last.op \in SqlOps /\ last.args.table = None /\ last.args.query = None)
    => /\ DelegateSteps(last.trace) = {}
       /\ last.outcome.kind = "raise"
       /\ last.outcome.val.type = IF last.world.driver THEN "ValueError" ELSE "ImportError"
       /\ last.world.driver =>
              last.outcome.val.msg = "Either 'table' or 'query' parameter must be provided"

C2_Witness ==
    /\ last.op = "read_postgresql"
    /\ last.args.table = None /\ last.args.query = None
    /\ last.world.driver /\ last.world.server = "up"
    /\ last.outcome.kind = "raise" /\ last.outcome.val.type = "ValueError"

\* The table argument of a network read (table_id for BigQuery).
TableArg(c) == IF c.op = "read_bigquery" THEN c.args.table_id ELSE c.args.table

QueryLines == {188, 231, 275}
TableLines == {191, 234, 279}

\* A call that ran the caller's query and nothing else: one delegate
\* invocation, on a query branch, with the query text as given.
RanQueryOnly(c) ==
    /\ Cardinality(DelegateSteps(c.trace)) = 1
    /\ \A i \in DelegateSteps(c.trace) :
           c.trace[i].line \in QueryLines /\ c.trace[i].a = c.args.query

\* C3, as stated: with a query and a table both given, the delegate is
\* invoked exactly once, with the query text, and no statement built from
\* the table is run.
C3_QueryTakesPrecedence ==
    (last.op \in NetworkOps /\ Truthy(last.args.query) /\ Truthy(TableArg(last)))
    => RanQueryOnly(last)

\* C3, amended: the same when the driver can be imported; and a statement
\* built from the table is only ever run for a call without a query.
C3_QueryTakesPrecedenceWithDriver ==
    /\ (last.op \in NetworkOps /\ Truthy(last.args.query) /\ Truthy(TableArg(last))
        /\ last.world.driver)
       => RanQueryOnly(last)
    /\ (last.op \in NetworkOps /\ LinesOf(last.trace) \cap TableLines # {})
       => ~Truthy(last.args.query) /\ Truthy(TableArg(last))
    /\ (last.op \in NetworkOps /\ ~last.world.driver) => DelegateSteps(last.trace) = {}

C3_Witness ==
    /\ last.op = "read_mysql"
    /\ last.args.query = "SELECT * FROM orders" /\ last.args.table = "users"
    /\ last.world.driver /\ last.world.server = "up"
    /\ RanQueryOnly(last)
    /\ last.outcome = Raise("DatabaseError", "no such table: orders")

\* The extension of each path of the model, lower-cased, written out by hand.
ExtensionOf(path) ==
    CASE path = <<"d", ".", "c", "s", "v">> -> ".csv"
      [] path = <<"D", ".", "C", "s", "V">> -> ".csv"
      [] path = <<"b", ".", "x", "l", "s", "x">> -> ".xlsx"
      [] path = <<"B", ".", "X", "L", "S">> -> ".xls"
      [] path = <<"j", ".", "j", "s", "o", "n">> -> ".json"
      [] path = <<"a", ".", "d", "b">> -> ".db"
      [] path = <<"a", ".", "s", "q", "l", "i", "t", "e">> -> ".sqlite"
      [] path = <<"A", ".", "S", "Q", "L", "i", "t", "e", "3">> -> ".sqlite3"
      [] path = <<"p", ".", "p", "a", "r", "q", "u", "e", "t">> -> ".parquet"
      [] path = <<"P", ".", "P", "a", "r", "q", "u", "e", "t">> -> ".parquet"
      [] path = <<"n", "o", "e", "x", "t">> -> ""
      [] path = <<".", "c", "s", "v">> -> ""
      [] path = <<"v", ".", "d", "b", "/", "r", "a", "w">> -> ""
      [] path = <<"d", ".", "c", "s", "v", ".", "g", "z">> -> ".gz"

SqliteExtensions == {".db", ".sqlite", ".sqlite3"}
ExcelExtensions == {".xlsx", ".xls"}

\* The source lines of each reader's steps.
CsvLines == 41..47
ExcelLines == 62..70
JsonLines == 84..90
TableReadLines == 105..112
ListLines == 148..156

\* The steps of an auto_detect_and_read call after its own first status line.
Dispatched(c) == {c.trace[i].line : i \in DOMAIN c.trace} \ {303}

\* C4: auto_detect_and_read enters exactly the reader of the path's
\* lower-cased extension, and for any other extension raises the ValueError
\* naming that extension without entering any reader.
C4_DispatchOnLowercasedExtension ==
    last.op = "auto_detect_and_read" =>
        LET ext == ExtensionOf(last.args.path)
        IN IF ext = ".csv" THEN 41 \in Dispatched(last) /\ Dispatched(last) \subseteq CsvLines
           ELSE IF ext \in ExcelExtensions
                THEN 62 \in Dispatched(last) /\ Dispatched(last) \subseteq ExcelLines
           ELSE IF ext = ".json"
                THEN 84 \in Dispatched(last) /\ Dispatched(last) \subseteq JsonLines
           ELSE IF ext \in SqliteExtensions
                THEN /\ 148 \in Dispatched(last)
                     /\ Dispatched(last) \subseteq (ListLines \cup TableReadLines \cup {319})
           ELSE /\ last.outcome = Raise("ValueError", "Unsupported file format: " \o ext)
                /\ last.trace = <<E("print", 303, ext, "")>>

C4_Witness ==
    /\ last.op = "auto_detect_and_read"
    /\ last.args.path = <<"P", ".", "P", "a", "r", "q", "u", "e", "t">>
    /\ last.outcome = Raise("ValueError", "Unsupported file format: .parquet")

\* An auto_detect_and_read call on a SQLite path whose catalog was listed.
AutoOnSqlite(c) ==
    /\ c.op = "auto_detect_and_read"
    /\ ExtensionOf(c.args.path) \in SqliteExtensions
    /\ c.world.db.state = "ok"

First(tr, line) == CHOOSE i \in DOMAIN tr : tr[i].line = line /\ \A j \in 1..(i - 1) : tr[j].line # line

\* C5: on a SQLite file with tables and no 'table' option the call gives
\* what read_sqlite_table gives for the first listed table with the same
\* options, prints the default-selection warning for it, and lists the
\* catalog before it reads.
C5_DefaultsToFirstListedTable ==
    (AutoOnSqlite(last) /\ last.world.db.catalog # <<>> /\ ~HasKey(last.args.kwargs, "table"))
    => LET listing == last.trace[First(last.trace, 150)].res.val.items
           T == listing[1]
           direct == read_sqlite_table(Str(last.args.path), T, last.args.kwargs,
                                       last.world.db, last.world.runtime)
       IN /\ T = last.world.db.catalog[1]
          /\ last.outcome = direct.outcome
          /\ \E i \in DOMAIN last.trace : last.trace[i] = E("print", 319, T, "")
          /\ \E i \in DelegateSteps(last.trace) :
                 last.trace[i].line = 107 /\ last.trace[i].a = "SELECT * FROM " \o T
          /\ First(last.trace, 150) < First(last.trace, 105)

C5_Witness ==
    /\ AutoOnSqlite(last)
    /\ last.world.db.catalog = <<"users", "orders">>
    /\ last.args.kwargs = {<<"dtype", "str">>}
    /\ last.outcome = Ret(DataFrame("users", 5, 3, {<<"dtype", "str">>}))

\* C6: on a SQLite file whose catalog is empty the call raises the
\* no-tables ValueError and never enters read_sqlite_table, with or without
\* a 'table' option.
C6_EmptyCatalogFails ==
    (AutoOnSqlite(last) /\ last.world.db.catalog = <<>>)
    => /\ last.outcome = Raise("ValueError", "No tables found in SQLite database")
       /\ Dispatched(last) \cap TableReadLines = {}

C6_Witness ==
    /\ AutoOnSqlite(last)
    /\ last.world.db.catalog = <<>>
    /\ HasKey(last.args.kwargs, "table")
    /\ last.outcome.kind = "raise" /\ last.outcome.val.type = "ValueError"

ReadOps ==
    {"read_csv", "read_excel", "read_json", "read_sqlite_table", "read_sqlite_query",
     "list_sqlite_tables", "read_mysql", "read_postgresql", "read_bigquery"}

\* C7: in every read operation the delegate is invoked at most once, and a
\* failure of the delegate (or of opening the connection) is the failure the
\* call raises, kind and message unchanged.
C7_DelegateFailurePropagates ==
    last.op \in ReadOps =>
        /\ Cardinality(DelegateSteps(last.trace)) <= 1
        /\ \A i \in DOMAIN last.trace :
               (last.trace[i].ev \in {"delegate", "connect"}
                /\ last.trace[i].res.kind = "raise")
               => last.outcome = last.trace[i].res

C7_Witness ==
    /\ last.op = "read_sqlite_table"
    /\ last.args.table = "missing"
    /\ last.world.db = [state |-> "ok", catalog |-> <<"users", "orders">>]
    /\ last.outcome = Raise("DatabaseError", "no such table: missing")

\* A read_excel call, direct or through the module function or the
\* dispatcher, that names no sheet.
NoSheetNamed(c) ==
    \/ c.op = "read_excel" /\ c.args.sheet_name = None
    \/ c.op = "module.read_excel" /\ ~HasKey(c.args.kwargs, "sheet_name")
    \/ /\ c.op = "auto_detect_and_read"
       /\ ExtensionOf(c.args.path) \in ExcelExtensions
       /\ ~HasKey(c.args.kwargs, "sheet_name")

\* C8: a read_excel call that names no sheet leaves the sheet selection to
\* the delegate's default, and on a readable workbook returns one Table.
C8_DefaultSheetApplies ==
    NoSheetNamed(last) =>
        /\ \A i \in DelegateSteps(last.trace) : last.trace[i].b = DefaultSheet
        /\ (last.world.wb.state = "ok" /\ Keys(last.args.kwargs) \subseteq AcceptedOptions)
           => (last.outcome.kind = "return" /\ last.outcome.val.type = "DataFrame")

\* C9: a read_bigquery call that imports its driver and is given a
\* credentials path writes it to the process environment before the delegate
\* runs and leaves it there; without a path the delegate runs under the
\* value found; and no other step of the program changes the variable.
C9_CredentialsStayInEnvironment ==
    [][ /\ (last'.op = "read_bigquery" /\ last.op = "none" /\ last'.world.driver)
           => LET c == last'
                  expected == IF Truthy(c.args.credentials_path)
                              THEN c.args.credentials_path ELSE environ
              IN /\ environ' = expected
                 /\ \A i \in DelegateSteps(c.trace) :
                        /\ c.trace[i].b = expected
                        /\ Truthy(c.args.credentials_path)
                           => \E j \in 1..(i - 1) :
                                  c.trace[j] = E("setenv", 270, c.args.credentials_path, "")
        /\ ~(last'.op = "read_bigquery" /\ last.op = "none") => environ' = environ
      ]_vars

\* A call without a path that ran under the path an earlier call left.
C9_Witness ==
    /\ last.op = "read_bigquery"
    /\ last.world.driver
    /\ last.args.credentials_path = None
    /\ environ = "a.json"
    /\ \E i \in DelegateSteps(last.trace) : last.trace[i].b = "a.json"

MissingMessage(op) ==
    CASE op = "read_mysql" ->
           "PyMySQL is required for MySQL connections. Install with: pip install pymysql"
      [] op = "read_postgresql" ->
           "psycopg2 is required for PostgreSQL connections. Install with: pip install psycopg2-binary"
      [] op = "read_bigquery" ->
           "pandas-gbq is required for BigQuery connections. Install with: pip install pandas-gbq"

\* C10: a network read whose driver cannot be imported raises the
\* ImportError naming the driver and its install command, whatever the
\* arguments, with no delegate invocation and the credentials variable
\* untouched.
C10_DependencyMissingDecidedFirst ==
    [][ (last'.op \in NetworkOps /\ last.op = "none" /\ ~last'.world.driver)
        => /\ last'.outcome = Raise("ImportError", MissingMessage(last'.op))
           /\ \A i \in DOMAIN last'.trace : last'.trace[i].ev = "import"
           /\ environ' = environ
      ]_vars

C10_Witness ==
    /\ last.op = "read_bigquery"
    /\ ~last.world.driver
    /\ last.args.credentials_path = "a.json"
    /\ last.args.query = None /\ last.args.table_id = None
    /\ last.outcome.val.type = "ImportError"
    /\ environ # "a.json"

====
